---- MODULE Spec2Model ----
(***************************************************************************)
(* Model of the simple block device driver sbdd (src/sbdd.c): the module   *)
(* thread running sbdd_init / sbdd_create / sbdd_exit / sbdd_delete, and   *)
(* concurrent execution contexts running sbdd_make_request.                *)
(***************************************************************************)
EXTENDS Integers, Sequences, FiniteSets, TLC

(***************************************************************************)
(* Program constants                                                       *)
(***************************************************************************)
SBDD_SECTOR_SHIFT == 9
SBDD_SECTOR_SIZE == 2^SBDD_SECTOR_SHIFT
SBDD_MIB_SECTORS == 2^(20 - SBDD_SECTOR_SHIFT)
EBUSY == 16
ENOMEM == 12
EINVAL == 22
\* the major number register_blkdev(0, ...) hands out (any value > 0)
DynMajor == 254

(***************************************************************************)
(* Bounds of the model                                                     *)
(***************************************************************************)
\* width in bits of sector_t and size_t (64 in the build), scaled down
WordBits == 12
\* capacity of the device in sectors (__sbdd_capacity_mib * SBDD_MIB_SECTORS
\* in the build), scaled down
CapacitySectors == 3
\* number of execution contexts that submit a bio
NReq == 2

Reqs == 1..NReq
Word == 2^WordBits
MaxSector == Word - 1
\* the first sector whose byte offset no longer fits a size_t
WrapSector == 2^(WordBits - SBDD_SECTOR_SHIFT)

\* unsigned arithmetic of width WordBits
Trunc(x) == x % Word
\* (x << SBDD_SECTOR_SHIFT) in width WordBits
Shl(x) == (x % WrapSector) * SBDD_SECTOR_SIZE
\* (x >> SBDD_SECTOR_SHIFT)
Shr(x) == x \div SBDD_SECTOR_SIZE

Min(a, b) == IF a < b THEN a ELSE b

\* content of a buffer sector nobody has written
Unset == 0 - 1
\* what a copy that runs outside its buffers may pick up
GarbageVals == {0, Unset}

VARIABLES
    major,       \* __sbdd_major
    dev,         \* __sbdd: deleting, refs_cnt, capacity, data, gd, q
    datalock,    \* __sbdd.datalock: 0 when free, else the context holding it
    exitwait,    \* __sbdd.exitwait: TRUE when the deleting task is queued on it
    dtask,       \* scheduler state of the task inside wait_event
    store,       \* the vzalloc'ed region __sbdd.data points to
    disk,        \* the gendisk __sbdd.gd points to
    queue,       \* the request queue __sbdd.q points to
    registered,  \* the block-device table entry of SBDD_NAME
    mpc,         \* position of the module thread (insmod / rmmod)
    ret,         \* ret of sbdd_create and sbdd_init
    req,         \* per context: the bio and the position inside sbdd_make_request
    hist         \* history of the run (not program state)

vars == <<major, dev, datalock, exitwait, dtask, store, disk, queue,
          registered, mpc, ret, req, hist>>

\* struct sbdd after memset(&__sbdd, 0, sizeof(struct sbdd))
ZeroDev ==
    [deleting |-> 0, refs_cnt |-> 0, capacity |-> 0,
     data |-> "null", gd |-> "null", q |-> "null", inited |-> FALSE]

NoStore == [state |-> "none", mem |-> <<>>]

IdleReq ==
    [pc |-> "idle", dir |-> 0, sector |-> 0, segs |-> <<>>, idx |-> 0,
     pos |-> 0, len |-> 0, offset |-> 0, nbytes |-> 0, buf |-> <<>>,
     status |-> "none", acc |-> {}, lens |-> <<>>, at |-> <<>>,
     born |-> "none", adm |-> "none", after |-> {}, clean |-> FALSE,
     conc |-> FALSE]

NoHist ==
    [closed |-> FALSE, uaf |-> FALSE, stale |-> FALSE, lastfail |-> "none",
     again |-> FALSE]

Init ==
    /\ major = 0
    /\ dev = ZeroDev
    /\ datalock = 0
    /\ exitwait = FALSE
    /\ dtask = "running"
    /\ store = NoStore
    /\ disk = "none"
    /\ queue = "none"
    /\ registered = FALSE
    /\ mpc = "unloaded"
    /\ ret = 0
    /\ req = [r \in Reqs |-> IdleReq]
    /\ hist = NoHist

(***************************************************************************)
(* sbdd_init and sbdd_create                                               *)
(***************************************************************************)
\* module_init(sbdd_init): insmod, also again after a load that failed
SbddInit ==
    /\ mpc \in {"unloaded", "failed"}
    /\ mpc' = "c_register"
    /\ ret' = 0
    /\ hist' = [hist EXCEPT !.closed = FALSE, !.again = FALSE]
    /\ UNCHANGED <<major, dev, datalock, exitwait, dtask, store, disk, queue,
                   registered, req>>

\* register_blkdev(0, SBDD_NAME) succeeds
CreateRegister ==
    /\ mpc = "c_register"
    /\ major' = DynMajor
    /\ registered' = TRUE
    /\ mpc' = "c_alloc"
    /\ UNCHANGED <<dev, datalock, exitwait, dtask, store, disk, queue, ret,
                   req, hist>>

\* register_blkdev fails: return -EBUSY
CreateRegisterFail ==
    /\ mpc = "c_register"
    /\ major' = 0 - EBUSY
    /\ ret' = 0 - EBUSY
    /\ mpc' = "i_check"
    /\ hist' = [hist EXCEPT !.lastfail = "major"]
    /\ UNCHANGED <<dev, datalock, exitwait, dtask, store, disk, queue,
                   registered, req>>

\* memset, capacity, vzalloc succeeds
CreateAllocData ==
    /\ mpc = "c_alloc"
    /\ dev' = [ZeroDev EXCEPT !.capacity = CapacitySectors, !.data = "ptr"]
    /\ datalock' = 0
    /\ exitwait' = FALSE
    /\ store' = [state |-> "live",
                 mem |-> [a \in 0..(CapacitySectors - 1) |-> 0]]
    /\ mpc' = "c_queue"
    /\ UNCHANGED <<major, dtask, disk, queue, registered, ret, req, hist>>

\* memset, capacity, vzalloc fails: return -ENOMEM
CreateAllocDataFail ==
    /\ mpc = "c_alloc"
    /\ dev' = [ZeroDev EXCEPT !.capacity = CapacitySectors]
    /\ datalock' = 0
    /\ exitwait' = FALSE
    /\ ret' = 0 - ENOMEM
    /\ mpc' = "i_check"
    /\ hist' = [hist EXCEPT !.lastfail = "data"]
    /\ UNCHANGED <<major, dtask, store, disk, queue, registered, req>>

\* spin_lock_init, init_waitqueue_head, blk_alloc_queue succeeds,
\* blk_queue_make_request, blk_queue_logical_block_size
CreateAllocQueue ==
    /\ mpc = "c_queue"
    /\ dev' = [dev EXCEPT !.inited = TRUE, !.q = "ptr"]
    /\ datalock' = 0
    /\ exitwait' = FALSE
    /\ queue' = "alloc"
    /\ mpc' = "c_disk"
    /\ UNCHANGED <<major, dtask, store, disk, registered, ret, req, hist>>

\* spin_lock_init, init_waitqueue_head, blk_alloc_queue fails: return -EINVAL
CreateAllocQueueFail ==
    /\ mpc = "c_queue"
    /\ dev' = [dev EXCEPT !.inited = TRUE]
    /\ datalock' = 0
    /\ exitwait' = FALSE
    /\ ret' = 0 - EINVAL
    /\ mpc' = "i_check"
    /\ hist' = [hist EXCEPT !.lastfail = "queue"]
    /\ UNCHANGED <<major, dtask, store, disk, queue, registered, req>>

\* CreateAllocDisk without atomic_set(&__sbdd.refs_cnt, 1)
CreateAllocDisk_NoRef ==
    /\ mpc = "c_disk"
    /\ dev' = [dev EXCEPT !.gd = "ptr"]
    /\ disk' = "alloc"
    /\ mpc' = "c_add"
    /\ UNCHANGED <<major, datalock, exitwait, dtask, store, queue, registered,
                   ret, req, hist>>

\* alloc_disk(1) succeeds, the gendisk is configured, refs_cnt is set to 1
CreateAllocDisk ==
    /\ mpc = "c_disk"
    /\ dev' = [dev EXCEPT !.gd = "ptr", !.refs_cnt = 1]
    /\ disk' = "alloc"
    /\ mpc' = "c_add"
    /\ UNCHANGED <<major, datalock, exitwait, dtask, store, queue, registered,
                   ret, req, hist>>

\* alloc_disk(1) returns NULL, which the code does not test:
\* __sbdd.gd->queue dereferences the null pointer
CreateAllocDiskFail ==
    /\ mpc = "c_disk"
    /\ mpc' = "oops"
    /\ hist' = [hist EXCEPT !.lastfail = "disk"]
    /\ UNCHANGED <<major, dev, datalock, exitwait, dtask, store, disk, queue,
                   registered, ret, req>>

\* add_disk(__sbdd.gd); return ret
CreateAddDisk ==
    /\ mpc = "c_add"
    /\ disk' = "added"
    /\ mpc' = "i_check"
    /\ UNCHANGED <<major, dev, datalock, exitwait, dtask, store, queue,
                   registered, ret, req, hist>>

\* sbdd_init after sbdd_create returned: roll back on error
InitCheck ==
    /\ mpc = "i_check"
    /\ mpc' = IF ret # 0 THEN "d_set" ELSE "loaded"
    /\ hist' = IF ret # 0 THEN hist ELSE [hist EXCEPT !.lastfail = "none"]
    /\ UNCHANGED <<major, dev, datalock, exitwait, dtask, store, disk, queue,
                   registered, ret, req>>

\* module_exit(sbdd_exit): rmmod of the loaded module
SbddExit ==
    /\ mpc = "loaded"
    /\ mpc' = "d_set"
    /\ UNCHANGED <<major, dev, datalock, exitwait, dtask, store, disk, queue,
                   registered, ret, req, hist>>

(***************************************************************************)
(* sbdd_delete                                                             *)
(***************************************************************************)
\* sbdd_delete() entered once more after it has returned: the function is
\* written to be callable in any state of __sbdd, whoever the caller is
DeleteAgain ==
    /\ mpc \in {"failed", "gone"}
    /\ mpc' = "d_set"
    /\ hist' = [hist EXCEPT !.again = TRUE]
    /\ UNCHANGED <<major, dev, datalock, exitwait, dtask, store, disk, queue,
                   registered, ret, req>>

\* atomic_set(&__sbdd.deleting, 1)
DeleteSetDeleting ==
    /\ mpc = "d_set"
    /\ dev' = [dev EXCEPT !.deleting = 1]
    /\ mpc' = "d_dec"
    /\ hist' = [hist EXCEPT !.closed = TRUE]
    /\ UNCHANGED <<major, datalock, exitwait, dtask, store, disk, queue,
                   registered, ret, req>>

\* DeleteDecIfPositive left out: the creation token is never released
DeleteDecIfPositive_Skip ==
    /\ mpc = "d_dec"
    /\ mpc' = "d_wait"
    /\ UNCHANGED <<major, dev, datalock, exitwait, dtask, store, disk, queue,
                   registered, ret, req, hist>>

\* DeleteDecIfPositive as a plain atomic_dec
DeleteDecIfPositive_Plain ==
    /\ mpc = "d_dec"
    /\ dev' = [dev EXCEPT !.refs_cnt = @ - 1]
    /\ mpc' = "d_wait"
    /\ UNCHANGED <<major, datalock, exitwait, dtask, store, disk, queue,
                   registered, ret, req, hist>>

\* atomic_dec_if_positive(&__sbdd.refs_cnt)
DeleteDecIfPositive ==
    /\ mpc = "d_dec"
    /\ dev' = [dev EXCEPT !.refs_cnt = IF @ - 1 >= 0 THEN @ - 1 ELSE @]
    /\ mpc' = "d_wait"
    /\ UNCHANGED <<major, datalock, exitwait, dtask, store, disk, queue,
                   registered, ret, req, hist>>

\* DeleteWaitCheck without the wait: sbdd_delete goes on whatever refs_cnt is
DeleteWaitCheck_NoWait ==
    /\ mpc = "d_wait"
    /\ mpc' = "d_delgd"
    /\ UNCHANGED <<major, dev, datalock, exitwait, dtask, store, disk, queue,
                   registered, ret, req, hist>>

\* wait_event: the condition is tested before anything else
DeleteWaitCheck ==
    /\ mpc = "d_wait"
    /\ mpc' = IF dev.refs_cnt = 0 THEN "d_delgd" ELSE "d_prep"
    /\ UNCHANGED <<major, dev, datalock, exitwait, dtask, store, disk, queue,
                   registered, ret, req, hist>>

\* wait_event: prepare_to_wait_event queues the task and marks it sleeping
DeleteWaitPrepare ==
    /\ mpc = "d_prep"
    /\ exitwait' = TRUE
    /\ dtask' = "sleeping"
    /\ mpc' = "d_recheck"
    /\ UNCHANGED <<major, dev, datalock, store, disk, queue, registered, ret,
                   req, hist>>

\* wait_event: the condition is tested again once queued; finish_wait if true
DeleteWaitRecheck ==
    /\ mpc = "d_recheck"
    /\ IF dev.refs_cnt = 0
         THEN /\ exitwait' = FALSE
              /\ dtask' = "running"
              /\ mpc' = "d_delgd"
         ELSE /\ mpc' = "d_sched"
              /\ UNCHANGED <<exitwait, dtask>>
    /\ UNCHANGED <<major, dev, datalock, store, disk, queue, registered, ret,
                   req, hist>>

\* wait_event: schedule() returns once the task has been woken
DeleteWaitSchedule ==
    /\ mpc = "d_sched"
    /\ dtask = "running"
    /\ mpc' = "d_prep"
    /\ UNCHANGED <<major, dev, datalock, exitwait, dtask, store, disk, queue,
                   registered, ret, req, hist>>

\* if (__sbdd.gd) del_gendisk(__sbdd.gd)
DeleteDelGendisk ==
    /\ mpc = "d_delgd"
    /\ disk' = IF dev.gd # "null" THEN "deleted" ELSE disk
    /\ mpc' = "d_cleanq"
    /\ UNCHANGED <<major, dev, datalock, exitwait, dtask, store, queue,
                   registered, ret, req, hist>>

\* if (__sbdd.q) blk_cleanup_queue(__sbdd.q)
DeleteCleanupQueue ==
    /\ mpc = "d_cleanq"
    /\ queue' = IF dev.q # "null" THEN "cleaned" ELSE queue
    /\ mpc' = "d_put"
    /\ UNCHANGED <<major, dev, datalock, exitwait, dtask, store, disk,
                   registered, ret, req, hist>>

\* if (__sbdd.gd) put_disk(__sbdd.gd)
DeletePutDisk ==
    /\ mpc = "d_put"
    /\ disk' = IF dev.gd # "null" THEN "put" ELSE disk
    /\ mpc' = "d_vfree"
    /\ UNCHANGED <<major, dev, datalock, exitwait, dtask, store, queue,
                   registered, ret, req, hist>>

\* if (__sbdd.data) vfree(__sbdd.data)
DeleteVfree ==
    /\ mpc = "d_vfree"
    /\ store' = IF dev.data # "null" THEN [store EXCEPT !.state = "freed"]
                ELSE store
    /\ mpc' = "d_memset"
    /\ UNCHANGED <<major, dev, datalock, exitwait, dtask, disk, queue,
                   registered, ret, req, hist>>

\* DeleteMemset left out: __sbdd keeps its pointers and counters
DeleteMemset_Skip ==
    /\ mpc = "d_memset"
    /\ mpc' = "d_unreg"
    /\ UNCHANGED <<major, dev, datalock, exitwait, dtask, store, disk, queue,
                   registered, ret, req, hist>>

\* memset(&__sbdd, 0, sizeof(struct sbdd)): the lock and the wait queue head
\* are fields of the struct
DeleteMemset ==
    /\ mpc = "d_memset"
    /\ dev' = ZeroDev
    /\ datalock' = 0
    /\ exitwait' = FALSE
    /\ mpc' = "d_unreg"
    /\ UNCHANGED <<major, dtask, store, disk, queue, registered, ret, req,
                   hist>>

\* DeleteUnregister that unregisters but leaves __sbdd_major as it is
DeleteUnregister_KeepMajor ==
    /\ mpc = "d_unreg"
    /\ registered' = IF major > 0 THEN FALSE ELSE registered
    /\ mpc' = IF ret # 0 THEN "failed" ELSE "gone"
    /\ UNCHANGED <<major, dev, datalock, exitwait, dtask, store, disk, queue,
                   ret, req, hist>>

\* if (__sbdd_major > 0) unregister_blkdev; __sbdd_major = 0; return to
\* sbdd_init (which returns ret) or to sbdd_exit
DeleteUnregister ==
    /\ mpc = "d_unreg"
    /\ IF major > 0
         THEN /\ registered' = FALSE
              /\ major' = 0
         ELSE UNCHANGED <<registered, major>>
    /\ mpc' = IF ret # 0 THEN "failed" ELSE "gone"
    /\ UNCHANGED <<dev, datalock, exitwait, dtask, store, disk, queue, ret,
                   req, hist>>

(***************************************************************************)
(* sbdd_xfer, sbdd_xfer_bio, sbdd_make_request                             *)
(***************************************************************************)
\* the starting sectors and segment lists (bv_len in bytes) a bio is drawn from
StartSectors == {0, CapacitySectors - 1, CapacitySectors + 1}
WideSectors ==
    {0, 1, CapacitySectors - 1, CapacitySectors, CapacitySectors + 1,
     WrapSector + 1, MaxSector}
SegChoices ==
    {<<SBDD_SECTOR_SIZE>>, <<2 * SBDD_SECTOR_SIZE>>,
     <<SBDD_SECTOR_SIZE, SBDD_SECTOR_SIZE>>}

\* sector j (1, 2, ...) of the payload context r writes
Payload(r, j) == 10 * r + j

RECURSIVE SumSectors(_, _)
\* sectors of the first i segments of a segment list
SumSectors(segs, i) ==
    IF i = 0 THEN 0 ELSE SumSectors(segs, i - 1) + Shr(segs[i])

TotalSectors(segs) == SumSectors(segs, Len(segs))

\* the buffers of a bio: one per segment, a value per sector
WriteBufs(r, segs) ==
    [i \in 1..Len(segs) |->
        [k \in 1..Shr(segs[i]) |-> Payload(r, SumSectors(segs, i - 1) + k)]]
ReadBufs(segs) ==
    [i \in 1..Len(segs) |-> [k \in 1..Shr(segs[i]) |-> Unset]]

RECURSIVE Flatten(_, _)
\* the first i buffers of a bio as one sequence of sectors
Flatten(bufs, i) == IF i = 0 THEN <<>> ELSE Flatten(bufs, i - 1) \o bufs[i]

\* sbdd_xfer_len without the clipping at the end of the device
sbdd_xfer_len_NoClip(capacity, pos, bv_len) == Shr(bv_len)

\* sbdd_xfer: the clipped length in sectors
sbdd_xfer_len(capacity, pos, bv_len) ==
    LET len == Shr(bv_len)
    IN  IF Trunc(pos + len) > capacity THEN Trunc(capacity - pos) ELSE len

\* the sectors a request was asked to transfer
ReqRange(q) == q.sector .. (q.sector + TotalSectors(q.segs) - 1)

StoreLive == store.state = "live" /\ dev.data # "null"

\* the memcpy of context r stays inside the store and inside its segment buffer
CopyDefined(r) ==
    LET n == Shr(req[r].nbytes)
        o == Shr(req[r].offset)
        b == Shr(req[r].segs[req[r].idx])
    IN  \/ n = 0
        \/ /\ StoreLive
           /\ n <= b
           /\ \A a \in o..(o + n - 1) : a \in DOMAIN store.mem

\* context r holds a reference and has not reported completion yet
InFlight(r) == req[r].pc \in {"lock", "copy", "endio"}

\* a context enters sbdd_make_request with a bio
ReqStart(r, S) ==
    /\ req[r].pc = "idle"
    /\ disk \in {"added", "deleted", "put"}
    /\ \E dir \in {0, 1}, s \in S, segs \in SegChoices :
         req' = [req EXCEPT ![r] =
                   [IdleReq EXCEPT
                      !.pc = "check", !.dir = dir, !.sector = s, !.segs = segs,
                      !.buf = IF dir = 1 THEN WriteBufs(r, segs)
                              ELSE ReadBufs(segs),
                      !.born = IF hist.closed THEN "closed" ELSE "open",
                      !.clean = (dir = 1),
                      !.after = {w \in Reqs \ {r} :
                                   /\ req[w].pc = "done"
                                   /\ req[w].status = "ok"
                                   /\ req[w].dir = 1
                                   /\ req[w].clean}]]
    /\ UNCHANGED <<major, dev, datalock, exitwait, dtask, store, disk, queue,
                   registered, mpc, ret, hist>>

\* if (atomic_read(&__sbdd.deleting)) { bio_io_error(bio); return; }
MakeRequestCheckDeleting(r) ==
    /\ req[r].pc = "check"
    /\ req' = [req EXCEPT ![r] =
                 IF dev.deleting # 0
                   THEN [@ EXCEPT !.pc = "done", !.status = "ioerr"]
                   ELSE [@ EXCEPT !.pc = "inc"]]
    /\ UNCHANGED <<major, dev, datalock, exitwait, dtask, store, disk, queue,
                   registered, mpc, ret, hist>>

\* MakeRequestIncNotZero that tests refs_cnt but takes no reference
MakeRequestIncNotZero_NoRef(r) ==
    /\ req[r].pc = "inc"
    /\ req' = [req EXCEPT ![r] =
                 IF dev.refs_cnt # 0
                   THEN [@ EXCEPT !.pc = "lock", !.idx = 1,
                                  !.pos = req[r].sector,
                                  !.adm = IF hist.closed THEN "closed"
                                          ELSE "open"]
                   ELSE [@ EXCEPT !.pc = "done", !.status = "ioerr"]]
    /\ UNCHANGED <<major, dev, datalock, exitwait, dtask, store, disk, queue,
                   registered, mpc, ret, hist>>

\* MakeRequestIncNotZero as atomic_inc followed by a test of the old value
MakeRequestIncNotZero_IncFirst(r) ==
    /\ req[r].pc = "inc"
    /\ dev' = [dev EXCEPT !.refs_cnt = @ + 1]
    /\ req' = [req EXCEPT ![r] =
                 IF dev.refs_cnt # 0
                   THEN [@ EXCEPT !.pc = "lock", !.idx = 1,
                                  !.pos = req[r].sector,
                                  !.adm = IF hist.closed THEN "closed"
                                          ELSE "open"]
                   ELSE [@ EXCEPT !.pc = "done", !.status = "ioerr"]]
    /\ UNCHANGED <<major, datalock, exitwait, dtask, store, disk, queue,
                   registered, mpc, ret, hist>>

\* if (!atomic_inc_not_zero(&__sbdd.refs_cnt)) { bio_io_error(bio); return; }
\* then sbdd_xfer_bio starts at bio->bi_iter.bi_sector
MakeRequestIncNotZero(r) ==
    /\ req[r].pc = "inc"
    /\ IF dev.refs_cnt # 0
         THEN /\ dev' = [dev EXCEPT !.refs_cnt = @ + 1]
              /\ req' =
                   [w \in Reqs |->
                      IF w = r
                        THEN [req[r] EXCEPT
                                !.pc = "lock", !.idx = 1,
                                !.pos = req[r].sector,
                                !.adm = IF hist.closed THEN "closed"
                                        ELSE "open",
                                !.conc = \E v \in Reqs \ {r} : InFlight(v)]
                        ELSE [req[w] EXCEPT !.conc = @ \/ InFlight(w)]]
         ELSE /\ req' = [req EXCEPT ![r] =
                           [@ EXCEPT !.pc = "done", !.status = "ioerr"]]
              /\ UNCHANGED dev
    /\ UNCHANGED <<major, datalock, exitwait, dtask, store, disk, queue,
                   registered, mpc, ret, hist>>

\* XferLock with the byte offset taken from the clipped length, not from pos
XferLock_OffsetOfLen(r) ==
    /\ req[r].pc = "lock"
    /\ datalock = 0
    /\ datalock' = r
    /\ LET len == sbdd_xfer_len(dev.capacity, req[r].pos,
                                req[r].segs[req[r].idx])
       IN  req' = [req EXCEPT ![r] =
                     [@ EXCEPT !.pc = "copy", !.len = len,
                               !.offset = Shl(len), !.nbytes = Shl(len)]]
    /\ UNCHANGED <<major, dev, exitwait, dtask, store, disk, queue,
                   registered, mpc, ret, hist>>

\* sbdd_xfer up to spin_lock: len, offset, nbytes, then the lock is taken
XferLock(r) ==
    /\ req[r].pc = "lock"
    /\ datalock = 0
    /\ datalock' = r
    /\ LET len == sbdd_xfer_len(dev.capacity, req[r].pos,
                                req[r].segs[req[r].idx])
       IN  req' = [req EXCEPT ![r] =
                     [@ EXCEPT !.pc = "copy", !.len = len,
                               !.offset = Shl(req[r].pos), !.nbytes = Shl(len)]]
    /\ UNCHANGED <<major, dev, exitwait, dtask, store, disk, queue,
                   registered, mpc, ret, hist>>

\* StoreAfterWrite with the direction test inverted: a write stores nothing
StoreAfterWrite_None(q, g) == store.mem

\* memcpy(__sbdd.data + offset, buff, nbytes): the store after a write of
\* request q; g is what a copy reads past the end of the segment buffer
StoreAfterWrite(q, g) ==
    LET n == Shr(q.nbytes)
        o == Shr(q.offset)
        b == Shr(q.segs[q.idx])
    IN  [a \in DOMAIN store.mem |->
           IF o <= a /\ a < o + n
             THEN IF a - o < b THEN q.buf[q.idx][a - o + 1] ELSE g
             ELSE store.mem[a]]

\* memcpy(buff, __sbdd.data + offset, nbytes): the segment buffer after a
\* read of request q; g is what a copy reads outside the live store
BufAfterRead(q, g) ==
    LET n == Shr(q.nbytes)
        o == Shr(q.offset)
        b == Shr(q.segs[q.idx])
    IN  [k \in 1..b |->
           IF k <= n
             THEN IF StoreLive /\ (o + k - 1) \in DOMAIN store.mem
                    THEN store.mem[o + k - 1]
                    ELSE g
             ELSE q.buf[q.idx][k]]

\* sbdd_xfer from memcpy on: the copy, spin_unlock, return len; and
\* sbdd_xfer_bio: pos += len, next segment. A copy that leaves the store or
\* the segment buffer copies what is there and picks up garbage elsewhere.
XferCopy(r) ==
    /\ req[r].pc = "copy"
    /\ LET q == req[r]
           n == Shr(q.nbytes)
           o == Shr(q.offset)
           hit == IF q.dir = 1 /\ StoreLive
                    THEN {a \in DOMAIN store.mem : o <= a /\ a < o + n}
                    ELSE {}
       IN  \E g \in IF CopyDefined(r) THEN {0} ELSE GarbageVals :
             /\ store' =
                  IF q.dir = 1 /\ StoreLive
                    THEN [store EXCEPT !.mem = StoreAfterWrite(q, g)]
                    ELSE store
             /\ req' =
                  [w \in Reqs |->
                     IF w = r
                       THEN [q EXCEPT
                               !.pc = IF q.idx < Len(q.segs) THEN "lock"
                                      ELSE "endio",
                               !.buf[q.idx] =
                                  IF q.dir = 1 THEN @ ELSE BufAfterRead(q, g),
                               !.acc = IF n > 0 THEN @ \cup {<<o, o + n>>}
                                       ELSE @,
                               !.lens = Append(@, q.len),
                               !.at = Append(@, q.pos),
                               !.pos = Trunc(q.pos + q.len),
                               !.idx = q.idx + 1]
                       ELSE [req[w] EXCEPT
                               !.clean = @ /\ hit \cap ReqRange(req[w]) = {}]]
             /\ hist' = [hist EXCEPT !.uaf = @ \/ (n > 0 /\ ~StoreLive)]
    /\ datalock' = 0
    /\ UNCHANGED <<major, dev, exitwait, dtask, disk, queue, registered, mpc,
                   ret>>

\* the memcpy leaves the store or the segment buffer and faults: the context
\* dies inside the copy, holding datalock and its reference
XferOops(r) ==
    /\ req[r].pc = "copy"
    /\ ~CopyDefined(r)
    /\ req' = [req EXCEPT ![r] =
                 [@ EXCEPT !.pc = "oops",
                           !.acc = @ \cup {<<Shr(req[r].offset),
                                             Shr(req[r].offset)
                                               + Shr(req[r].nbytes)>>}]]
    /\ hist' = [hist EXCEPT !.uaf = @ \/ ~StoreLive]
    /\ UNCHANGED <<major, dev, datalock, exitwait, dtask, store, disk, queue,
                   registered, mpc, ret>>

\* bio_endio(bio)
MakeRequestEndio(r) ==
    /\ req[r].pc = "endio"
    /\ req' = [req EXCEPT ![r] = [@ EXCEPT !.pc = "dec", !.status = "ok"]]
    /\ UNCHANGED <<major, dev, datalock, exitwait, dtask, store, disk, queue,
                   registered, mpc, ret, hist>>

\* if (atomic_dec_and_test(&__sbdd.refs_cnt)) ... else return BLK_STS_OK
MakeRequestDecAndTest(r) ==
    /\ req[r].pc = "dec"
    /\ dev' = [dev EXCEPT !.refs_cnt = @ - 1]
    /\ req' = [req EXCEPT ![r] =
                 [@ EXCEPT !.pc = IF dev.refs_cnt - 1 = 0 THEN "wake"
                                  ELSE "done"]]
    /\ UNCHANGED <<major, datalock, exitwait, dtask, store, disk, queue,
                   registered, mpc, ret, hist>>

\* wake_up(&__sbdd.exitwait); return BLK_STS_OK
MakeRequestWakeUp(r) ==
    /\ req[r].pc = "wake"
    /\ exitwait' = FALSE
    /\ dtask' = IF exitwait THEN "running" ELSE dtask
    /\ req' = [req EXCEPT ![r] = [@ EXCEPT !.pc = "done"]]
    /\ hist' = [hist EXCEPT !.stale = @ \/ ~dev.inited]
    /\ UNCHANGED <<major, dev, datalock, store, disk, queue, registered, mpc,
                   ret>>

(***************************************************************************)
(* Specifications                                                          *)
(***************************************************************************)
Create ==
    \/ CreateRegister \/ CreateRegisterFail
    \/ CreateAllocData \/ CreateAllocDataFail
    \/ CreateAllocQueue \/ CreateAllocQueueFail
    \/ CreateAllocDisk \/ CreateAllocDiskFail
    \/ CreateAddDisk

Delete ==
    \/ DeleteSetDeleting \/ DeleteDecIfPositive
    \/ DeleteWaitCheck \/ DeleteWaitPrepare \/ DeleteWaitRecheck
    \/ DeleteWaitSchedule
    \/ DeleteDelGendisk \/ DeleteCleanupQueue \/ DeletePutDisk
    \/ DeleteVfree \/ DeleteMemset \/ DeleteUnregister

MakeRequest(r) ==
    \/ MakeRequestCheckDeleting(r) \/ MakeRequestIncNotZero(r)
    \/ XferLock(r) \/ XferCopy(r) \/ XferOops(r)
    \/ MakeRequestEndio(r) \/ MakeRequestDecAndTest(r)
    \/ MakeRequestWakeUp(r)

Next ==
    \/ SbddInit \/ Create \/ InitCheck \/ SbddExit \/ Delete
    \/ \E r \in Reqs : ReqStart(r, StartSectors) \/ MakeRequest(r)

Spec == Init /\ [][Next]_vars

\* every context that has entered sbdd_make_request or sbdd_delete keeps
\* being scheduled; insmod, rmmod and the submission of a bio are up to the
\* host
FairSpec ==
    /\ Spec
    /\ WF_vars(Delete)
    /\ \A r \in Reqs : WF_vars(MakeRequest(r))

\* a published, loaded device with one admitted bio about to be transferred
PublishedDev ==
    [deleting |-> 0, refs_cnt |-> 2, capacity |-> CapacitySectors,
     data |-> "ptr", gd |-> "ptr", q |-> "ptr", inited |-> TRUE]

InitXfer ==
    /\ major = DynMajor
    /\ dev = PublishedDev
    /\ datalock = 0
    /\ exitwait = FALSE
    /\ dtask = "running"
    /\ store = [state |-> "live",
                mem |-> [a \in 0..(CapacitySectors - 1) |-> 0]]
    /\ disk = "added"
    /\ queue = "alloc"
    /\ registered = TRUE
    /\ mpc = "loaded"
    /\ ret = 0
    /\ hist = NoHist
    /\ \E dir \in {0, 1}, s \in WideSectors, segs \in SegChoices :
         req = [r \in Reqs |->
                  IF r = 1
                    THEN [IdleReq EXCEPT
                            !.pc = "lock", !.dir = dir, !.sector = s,
                            !.segs = segs, !.idx = 1, !.pos = s,
                            !.buf = IF dir = 1 THEN WriteBufs(r, segs)
                                    ELSE ReadBufs(segs),
                            !.born = "open", !.adm = "open",
                            !.clean = (dir = 1)]
                    ELSE IdleReq]

NextXfer == \E r \in Reqs : XferLock(r) \/ XferCopy(r) \/ XferOops(r)

\* the segment loop of one admitted bio, over a wide range of sectors
SpecXfer == InitXfer /\ [][NextXfer]_vars

NextRedelete == Next \/ DeleteAgain

\* the life cycle with sbdd_delete also entered again after it has returned
SpecRedelete == Init /\ [][NextRedelete]_vars

(***************************************************************************)
(* Claims                                                                  *)
(***************************************************************************)
\* context r has passed atomic_inc_not_zero and not yet atomic_dec_and_test
HoldsRef(r) == req[r].pc \in {"lock", "copy", "endio", "dec", "oops"}

\* the module thread is inside the wait_event of sbdd_delete
InDrainWait == mpc \in {"d_prep", "d_recheck", "d_sched"}

\* C1: no sbdd_make_request invocation reads or writes the backing store
\* after sbdd_delete has freed it: a context is inside sbdd_xfer only with a
\* reference taken by a successful increment of refs_cnt and with the store
\* live, and the store is not live only when no context is inside sbdd_xfer.
C1_NoUseAfterFree ==
    /\ ~hist.uaf
    /\ \A r \in Reqs :
         req[r].pc \in {"lock", "copy"} =>
           /\ req[r].adm # "none"
           /\ dev.refs_cnt > 0
           /\ StoreLive

\* C1 witness: a context is inside the memcpy while sbdd_delete sleeps in
\* its wait for refs_cnt == 0
C1_Witness ==
    /\ mpc = "d_sched"
    /\ \E r \in Reqs : req[r].pc = "copy" /\ Shr(req[r].nbytes) > 0

\* C2: the backing store is freed only after bio_endio of every admitted
\* request has been issued, only after refs_cnt has reached 0, and only after
\* del_gendisk has unpublished the device.
C2_FreeAfterDrain ==
    [][(store.state = "live" /\ store'.state = "freed") =>
         /\ dev.refs_cnt = 0
         /\ disk \notin {"alloc", "added"}
         /\ \A r \in Reqs : req[r].adm # "none" => req[r].status = "ok"]_vars

\* C2 witness: the store has been freed after every context had been admitted
\* while the deletion was already under way
C2_Witness ==
    /\ store.state = "freed"
    /\ disk = "put"
    /\ \A r \in Reqs : req[r].adm = "closed" /\ req[r].status = "ok"

\* the sectors of the store context r has read or written so far
Accessed(r) == UNION {iv[1]..(iv[2] - 1) : iv \in req[r].acc}

\* context r has left the segment loop of sbdd_xfer_bio
LoopDone(r) ==
    req[r].adm # "none" /\ req[r].pc \in {"endio", "dec", "wake", "done"}

\* C3: for every request with starting sector s (also beyond capacity) and
\* total length L, the sectors of the store read or written are exactly
\* [s, min(s + L, capacity)), and no sector at or beyond capacity is accessed.
C3_BoundsSafety ==
    \A r \in Reqs :
      /\ \A iv \in req[r].acc : iv[2] <= CapacitySectors
      /\ LoopDone(r) =>
           Accessed(r) =
             req[r].sector ..
               (Min(req[r].sector + TotalSectors(req[r].segs),
                    CapacitySectors) - 1)

\* the clipped length the specification of the transfer asks for
ClippedLen(capacity, pos, len) ==
    IF pos >= capacity THEN 0
    ELSE IF pos + len <= capacity THEN len
    ELSE capacity - pos

\* C4: sbdd_xfer returns the clipped length in sectors: len if pos + len <=
\* capacity, capacity - pos if pos < capacity < pos + len, 0 if pos >=
\* capacity; with capacity 2048 a write of 20 sectors at 2040 transfers 8.
C4_ClippedLength ==
    /\ sbdd_xfer_len(2048, 2040, 20 * SBDD_SECTOR_SIZE) = 8
    /\ \A r \in Reqs :
         \A i \in 1..Len(req[r].lens) :
           req[r].lens[i] =
             ClippedLen(CapacitySectors, req[r].at[i], Shr(req[r].segs[i]))

\* C5: every invocation that begins after sbdd_delete has set the deleting
\* flag (also after the device state has been reset) is rejected with an I/O
\* error; every request admitted before the deletion was initiated runs its
\* whole segment loop and completes with success.
C5_AdmissionCloses ==
    \A r \in Reqs :
      /\ req[r].born = "closed" =>
           /\ req[r].adm = "none"
           /\ req[r].pc \in {"check", "inc", "done"}
           /\ req[r].pc = "done" => req[r].status = "ioerr"
      /\ req[r].adm = "open" =>
           /\ req[r].status # "ioerr"
           /\ req[r].pc # "oops"
           /\ req[r].pc \in {"dec", "wake", "done"} =>
                /\ req[r].status = "ok"
                /\ Len(req[r].lens) = Len(req[r].segs)

\* C6: under fair scheduling, once sbdd_delete has been called on a published
\* device, the deletion terminates: the wait for refs_cnt == 0 returns, the
\* device is unpublished and the store is freed.
C6_DeleteTerminates ==
    (mpc = "d_set" /\ disk = "added")
      ~> (mpc = "gone" /\ disk = "put" /\ store.state = "freed")

\* the sectors of all segment buffers of context r, in order
Sectors(r) == Flatten(req[r].buf, Len(req[r].buf))

\* the request of context r lies inside the device
InRange(r) ==
    req[r].sector + TotalSectors(req[r].segs) <= CapacitySectors

\* context w wrote exactly the sectors context r reads, inside the device,
\* completed before r began, and nobody else has written them since
ReadsBack(r, w) ==
    /\ w \in req[r].after
    /\ req[w].clean
    /\ req[w].sector = req[r].sector
    /\ TotalSectors(req[w].segs) = TotalSectors(req[r].segs)
    /\ InRange(w)

\* C7: a read of k sectors at s that follows a write of payload P of k
\* sectors at s (s + k <= capacity), with no write to those sectors in
\* between, returns exactly P.
C7_RoundTrip ==
    \A r \in Reqs :
      (req[r].dir = 0 /\ req[r].status = "ok") =>
        \A w \in Reqs : ReadsBack(r, w) => Sectors(r) = Sectors(w)

\* C7 witness: a completed read of two sectors in one segment after a write
\* of the same two sectors in two segments
C7_Witness ==
    \E r, w \in Reqs :
      /\ req[r].dir = 0
      /\ req[r].pc = "done"
      /\ req[r].status = "ok"
      /\ ReadsBack(r, w)
      /\ Len(req[w].segs) = 2
      /\ Len(req[r].segs) = 1

\* the store holds the payload of context a in the sectors of its request
HoldsOwnPayload(a) ==
    \A x \in ReqRange(req[a]) :
      store.mem[x] = Sectors(a)[x - req[a].sector + 1]

\* a and b are admitted writes to disjoint ranges inside the device, no third
\* context has written into either range
DisjointWrites(a, b) ==
    /\ a # b
    /\ req[a].dir = 1 /\ req[b].dir = 1
    /\ req[a].adm # "none" /\ req[b].adm # "none"
    /\ InRange(a) /\ InRange(b)
    /\ ReqRange(req[a]) \cap ReqRange(req[b]) = {}
    /\ req[a].clean /\ req[b].clean

\* C8: two concurrent admitted writes to non-overlapping in-range sector
\* ranges both complete with success, and afterwards each range holds exactly
\* its own request's payload, in every interleaving of the segment copies.
C8_DisjointWrites ==
    \A a, b \in Reqs :
      DisjointWrites(a, b) =>
        /\ req[a].pc # "oops" /\ req[a].status # "ioerr"
        /\ (req[a].status = "ok" /\ req[b].status = "ok" /\ StoreLive) =>
             HoldsOwnPayload(a) /\ HoldsOwnPayload(b)

\* C8 witness: two disjoint writes that were in flight at the same time have
\* both completed
C8_Witness ==
    \E a, b \in Reqs :
      /\ DisjointWrites(a, b)
      /\ req[a].conc /\ req[b].conc
      /\ req[a].pc = "done" /\ req[b].pc = "done"
      /\ req[a].status = "ok" /\ req[b].status = "ok"
      /\ Len(req[a].segs) = 2
      /\ StoreLive

\* C9: when vzalloc fails in sbdd_create, sbdd_init returns the error, the
\* device is never published, sbdd_delete does not block in the drain wait
\* and releases the major number, and the device state is left as it was
\* before the load, so that a later creation starts from the initial state.
C9_AllocFailureRollback ==
    ret = 0 - ENOMEM =>
      /\ mpc \in {"i_check", "d_set", "d_dec", "d_wait", "d_delgd",
                  "d_cleanq", "d_put", "d_vfree", "d_memset", "d_unreg",
                  "failed"}
      /\ disk = "none"
      /\ store.state # "live"
      /\ queue # "alloc"
      /\ \A r \in Reqs : req[r].pc = "idle"
      /\ mpc = "failed" =>
           /\ major = 0
           /\ ~registered
           /\ dev = ZeroDev
           /\ datalock = 0
           /\ ~exitwait

\* C9 witness: a creation has succeeded and published the device after an
\* earlier load failed in vzalloc and was rolled back
C9_Witness ==
    /\ hist.lastfail = "data"
    /\ ret = 0
    /\ mpc = "i_check"
    /\ disk = "added"
    /\ dev.refs_cnt = 1

\* C10: a rejected request (deleting set, or refs_cnt already 0) is reported
\* as an I/O error at once, transfers nothing, and leaves the store, refs_cnt,
\* the deleting flag and every other request as they were.
C10_RejectIsLocal ==
    [][\A r \in Reqs :
         (req[r].status = "none" /\ req'[r].status = "ioerr") =>
           /\ dev.deleting # 0 \/ dev.refs_cnt = 0
           /\ req'[r].pc = "done"
           /\ req'[r].acc = {} /\ req'[r].lens = <<>>
           /\ req'[r].buf = req[r].buf
           /\ store' = store
           /\ dev' = dev
           /\ datalock' = datalock
           /\ \A w \in Reqs \ {r} : req'[w] = req[w]]_vars

\* C10 witness: a request has been rejected while another one is inside the
\* memcpy
C10_Witness ==
    \E r, w \in Reqs :
      /\ req[r].status = "ioerr"
      /\ req[w].pc = "copy"
      /\ Shr(req[w].nbytes) > 0

\* C11: from the step that sets the deleting flag on, no step raises
\* refs_cnt: no atomic_inc_not_zero of sbdd_make_request succeeds any more
\* and the counter only goes down until it is 0
C11_CounterOnlyFalls == [][hist.closed => dev'.refs_cnt <= dev.refs_cnt]_vars

\* C12: when blk_alloc_queue or alloc_disk fails, the load is over with
\* sbdd_init returning an error, the store allocated before is freed again
\* by sbdd_delete, and add_disk never ran
C12_HandleFailureRollback ==
    /\ mpc # "oops"
    /\ (mpc = "failed" /\ hist.lastfail \in {"queue", "disk"}) =>
          /\ ret # 0
          /\ store.state = "freed"
          /\ dev.data = "null"
          /\ disk = "none"

\* C13: refs_cnt is never negative, whatever the interleaving of requests,
\* sbdd_delete, a repeated sbdd_delete and a failed sbdd_create, and it is
\* exactly 1 in the state in which add_disk has just published the device
C13_CounterNonNegative ==
    /\ dev.refs_cnt >= 0
    /\ [][/\ dev'.refs_cnt >= 0
          /\ (disk # "added" /\ disk' = "added") => dev'.refs_cnt = 1]_vars

\* sbdd_delete entered a second time has run atomic_dec_if_positive on a
\* counter that the first call left at 0 after draining an admitted request
C13_Witness ==
    /\ hist.again
    /\ mpc = "d_wait"
    /\ dev.refs_cnt = 0
    /\ \E r \in Reqs : req[r].adm # "none" /\ req[r].pc = "done"

RECURSIVE SumLens(_, _)
\* what the first i calls of sbdd_xfer of one bio returned, added up
SumLens(lens, i) == IF i = 0 THEN 0 ELSE SumLens(lens, i - 1) + lens[i]

\* C15: an admitted bio that starts at sector s <= capacity transfers its
\* segments in the order of the bio, segment i at s plus the sectors the
\* segments before it really transferred; a clipped segment does not end
\* the loop, segments met at pos = capacity transfer 0 sectors, pos never
\* passes capacity, and the bio is ended with success
C15_SegmentOrder ==
    \A r \in Reqs :
      LET q == req[r]
      IN  (q.adm # "none" /\ q.sector <= CapacitySectors) =>
            /\ q.pc # "oops"
            /\ Len(q.at) = Len(q.lens)
            /\ q.pc \in {"lock", "copy"} => q.idx = Len(q.lens) + 1
            /\ \A i \in 1..Len(q.lens) :
                 /\ q.at[i] = q.sector + SumLens(q.lens, i - 1)
                 /\ q.lens[i] <= Shr(q.segs[i])
                 /\ q.at[i] + q.lens[i] <= CapacitySectors
                 /\ q.at[i] = CapacitySectors => q.lens[i] = 0
                 /\ q.lens[i] < Shr(q.segs[i]) =>
                      q.at[i] + q.lens[i] = CapacitySectors
            /\ q.pos = q.sector + SumLens(q.lens, Len(q.lens))
            /\ q.pos <= CapacitySectors
            /\ q.pc \in {"endio", "dec", "wake", "done"} =>
                 Len(q.lens) = Len(q.segs)
            /\ q.pc \in {"dec", "wake", "done"} => q.status = "ok"
            /\ q.status # "ioerr"

\* a bio of two segments at the last sector has ended with success: its
\* first segment went to the last sector, its second transferred nothing
C15_Witness ==
    \E r \in Reqs :
      /\ req[r].adm # "none"
      /\ req[r].sector = CapacitySectors - 1
      /\ req[r].at = <<CapacitySectors - 1, CapacitySectors>>
      /\ req[r].lens = <<1, 0>>
      /\ req[r].status = "ok"

\* C16: sbdd_delete is safe after a failure of register_blkdev, vzalloc or
\* blk_alloc_queue and when entered again after it has returned: a step
\* releases its resource only when that resource exists and has not been
\* released before, refs_cnt stays at or above 0, nothing is left allocated
\* at return, and wait_event blocks only if some bio was admitted
C16_DeleteIsSafe ==
    /\ (mpc = "d_delgd" /\ dev.gd # "null") => disk = "added"
    /\ (mpc = "d_cleanq" /\ dev.q # "null") => queue = "alloc"
    /\ (mpc = "d_put" /\ dev.gd # "null") => disk = "deleted"
    /\ (mpc = "d_vfree" /\ dev.data # "null") => store.state = "live"
    /\ (mpc = "d_unreg" /\ major > 0) => registered
    /\ dev.refs_cnt >= 0
    /\ mpc \in {"failed", "gone"} =>
         /\ store.state # "live"
         /\ queue # "alloc"
         /\ disk \in {"none", "put"}
         /\ ~registered
    /\ InDrainWait => \E r \in Reqs : req[r].adm # "none"

\* sbdd_delete has returned a second time after the rollback of a load in
\* which blk_alloc_queue failed
C16_Witness ==
    /\ hist.again
    /\ mpc = "failed"
    /\ hist.lastfail = "queue"
    /\ store.state = "freed"
    /\ dev = ZeroDev

\* the device is reachable for bios and sbdd_delete has not set the flag yet
Serving == disk = "added" /\ mpc \in {"i_check", "loaded", "d_set"}

\* C17: add_disk is the last step of sbdd_create and runs only when every
\* step before it succeeded: in the state in which it has just published the
\* device the store is allocated and all zero, the lock and the wait queue
\* are initialised and free, refs_cnt is 1 and deleting is 0; and as long as
\* the published device is not being deleted no bio meets a counter of 0 or
\* a missing store
C17_PublishLast ==
    [][/\ (disk # "added" /\ disk' = "added") =>
            /\ mpc = "c_add" /\ mpc' = "i_check"
            /\ ret' = 0
            /\ registered' /\ major' > 0
            /\ store'.state = "live" /\ dev'.data # "null"
            /\ \A a \in DOMAIN store'.mem : store'.mem[a] = 0
            /\ DOMAIN store'.mem = 0..(CapacitySectors - 1)
            /\ dev'.capacity = CapacitySectors
            /\ dev'.inited /\ datalock' = 0 /\ exitwait' = FALSE
            /\ queue' = "alloc" /\ dev'.q # "null" /\ dev'.gd # "null"
            /\ dev'.refs_cnt = 1
            /\ dev'.deleting = 0
            /\ \A r \in Reqs : req'[r].pc \in {"idle", "done"}
       /\ Serving' =>
            /\ dev'.refs_cnt >= 1
            /\ dev'.deleting = 0
            /\ store'.state = "live" /\ dev'.data # "null"
            /\ dev'.inited]_vars

\* add_disk has just published a device after a load without any failure
C17_Witness ==
    /\ disk = "added"
    /\ mpc = "i_check"
    /\ hist.lastfail = "none"
    /\ dev.refs_cnt = 1
    /\ dev.deleting = 0
    /\ \A a \in DOMAIN store.mem : store.mem[a] = 0
    /\ \A r \in Reqs : req[r].pc = "idle"

\* C18: only a write changes the store, and only in the sectors
\* [s, min(s + L, capacity)) of its own range: a read changes no sector and
\* a write changes no sector outside its clipped range
C18_WriteFrame ==
    [][(store.state = "live" /\ store'.state = "live"
          /\ store'.mem # store.mem) =>
         \E r \in Reqs :
           /\ req[r].pc = "copy" /\ req'[r].lens # req[r].lens
           /\ req[r].dir = 1
           /\ \A a \in DOMAIN store.mem :
                store'.mem[a] # store.mem[a] =>
                  /\ req[r].sector <= a
                  /\ a < Min(req[r].sector + TotalSectors(req[r].segs),
                             CapacitySectors)]_vars

\* sbdd_delete has left wait_event and tears the device down, or has returned
PastDrain ==
    mpc \in {"d_delgd", "d_cleanq", "d_put", "d_vfree", "d_memset", "d_unreg",
             "failed", "gone"}

\* C19: every step in which an admitted sbdd_make_request invocation touches
\* __sbdd (datalock, the store, refs_cnt, the wake_up on exitwait after its
\* last decrement) is taken before sbdd_delete has left its wait_event
C19_AccessBeforeTeardown ==
    [][\A r \in Reqs :
         (/\ req[r].adm # "none"
          /\ req[r].pc \in {"lock", "copy", "dec", "wake"}
          /\ req'[r].pc # req[r].pc) => ~PastDrain]_vars

\* the reference sbdd_create took with atomic_set(&__sbdd.refs_cnt, 1), as
\* long as sbdd_delete has not released it
CreationToken ==
    IF dev.gd # "null" /\ mpc \in {"c_add", "i_check", "loaded", "d_set", "d_dec"}
      THEN 1 ELSE 0

\* C20: from a successful sbdd_create to the end of sbdd_delete refs_cnt is
\* the creation token, while sbdd_delete has not released it, plus the
\* number of admitted requests that have not decremented yet; so with
\* refs_cnt == 0 no request is inside the segment loop
C20_CounterAccounting ==
    disk # "none" =>
      /\ dev.refs_cnt
           = CreationToken + Cardinality({r \in Reqs : HoldsRef(r)})
      /\ dev.refs_cnt = 0 =>
           \A r \in Reqs : req[r].pc \notin {"lock", "copy"}

\* sbdd_delete has released the token and waits for two admitted requests,
\* one of them inside the copy
C20_Witness ==
    /\ InDrainWait
    /\ dev.refs_cnt = 2
    /\ \A r \in Reqs : HoldsRef(r)
    /\ \E r \in Reqs : req[r].pc = "copy"

====
